---- MODULE Spec2Model ----
(***************************************************************************)
(* A model of src/server_light.py: the page-to-slide reconstruction        *)
(* (generate_pptx_from_analysis), the job store with its HTTP handlers and *)
(* the background task process_pdf_with_gemini.                            *)
(*                                                                         *)
(* Conventions.  A Python dict is a function whose DOMAIN is the set of    *)
(* keys that are present; d.get(k, default) is Get(d, k, default).  A      *)
(* Python str is a sequence of one-character strings, a list is a          *)
(* sequence.  A float that the code computes as a / b * c is kept as the   *)
(* exact rational <<a * c, b>>; int(...) of it truncates toward zero.      *)
(***************************************************************************)
EXTENDS Integers, Sequences, FiniteSets, TLC

VARIABLES
    \* ---- generate_pptx_from_analysis: arguments and files it reads
    total_pages,    \* argument total_pages
    page_width,     \* argument page_width (points)
    page_height,    \* argument page_height (points)
    analysis,       \* json.load(json_path): page number -> page_data
    pages_dir,      \* page number -> the page image file page_<n>.png
    \* ---- generate_pptx_from_analysis: local state
    prs,            \* the Presentation: the sequence of slides added so far
    page_num,       \* loop variable of the page loop (0 before the first page)
    blocks,         \* the current page's blocks
    block_i,        \* position of the text-block loop in blocks
    gen_pc,         \* where the function is
    gen_progress,   \* job["progress"] as the function writes it
    \* ---- the Coordinate Mapper applied to one value
    map_n,          \* a normalized value
    map_img,        \* the image width (or height) in pixels
    map_page,       \* the page width (or height) in points
    map_px,         \* map_n in pixels
    map_via_px,     \* map_px in page units
    map_direct,     \* map_n in page units
    map_pc,
    \* ---- the job store, its files, the HTTP handlers and the background tasks
    api_key,        \* bool(GEMINI_API_KEY)
    jobs,           \* the keys of the dict jobs
    job_dict,       \* job id -> the dict created for it (it outlives its key)
    created,        \* the number of job ids handed out
    pdfs,           \* job id -> the number of pages of its input.pdf (0: unreadable)
    job_dirs,       \* the job ids whose directory TEMP_DIR/<id> exists
    outputs,        \* the job ids with an output file in OUTPUT_DIR
    tasks,          \* the background tasks added so far
    resp            \* the last HTTP response

genVars == <<total_pages, page_width, page_height, analysis, pages_dir,
             prs, page_num, blocks, block_i, gen_pc, gen_progress>>

mapVars == <<map_n, map_img, map_page, map_px, map_via_px, map_direct, map_pc>>

jobVars == <<api_key, jobs, job_dict, created, pdfs, job_dirs, outputs, tasks, resp>>

vars == <<genVars, mapVars, jobVars>>

----------------------------------------------------------------------------
\* Helpers

Max2(a, b) == IF a >= b THEN a ELSE b

Min2(a, b) == IF a <= b THEN a ELSE b

\* dict.get(k, default)
Get(d, k, default) == IF k \in DOMAIN d THEN d[k] ELSE default

\* int(a / b) for b > 0: truncation toward zero
TruncDiv(a, b) == IF a >= 0 THEN a \div b ELSE -((-a) \div b)

\* rationals <<numerator, denominator>> with a positive denominator
RatLt(p, q) == p[1] * q[2] < q[1] * p[2]

RatLe(p, q) == p[1] * q[2] <= q[1] * p[2]

RatEq(p, q) == p[1] * q[2] = q[1] * p[2]

RECURSIVE Concat(_)
Concat(ss) == IF ss = <<>> THEN <<>> ELSE Head(ss) \o Concat(Tail(ss))

----------------------------------------------------------------------------
\* Python slicing text[start:end]

\* a slice index brought into 0..n the way Python does: a negative index
\* counts from the end, anything still outside is cut to the nearest end
PyIndex(i, n) == IF i < 0 THEN Max2(i + n, 0) ELSE Min2(i, n)

PySlice(s, start, end) ==
    LET a == PyIndex(start, Len(s))
        b == PyIndex(end, Len(s))
    IN  IF a < b THEN SubSeq(s, a + 1, b) ELSE <<>>

----------------------------------------------------------------------------
\* Coordinate Mapper: the three transforms as the code writes them

\* int(nx / 1000 * img_width)                        (lines 485-488)
NormToPx(n, img_dim) == TruncDiv(n * img_dim, 1000)

\* nx / 1000 * page_width                            (lines 543-546)
NormToPt(n, page_dim) == <<n * page_dim, 1000>>

\* PxToPt with the two sizes exchanged: x / page_width * img_width
PxToPt_Exchanged(p, img_dim, page_dim) == <<p * img_dim, page_dim>>

\* x / img_width * page_width                        (lines 524-527)
PxToPt(p, img_dim, page_dim) == <<p * page_dim, img_dim>>

----------------------------------------------------------------------------
\* Text Run Composer (lines 565-602)

BLACK == <<0, 0, 0>>

\* RGBColor(int(rgb[0]), int(rgb[1]), int(rgb[2])) raises IndexError on a
\* short list and ValueError on a component outside 0..255
RGBColorOk(rgb) == Len(rgb) >= 3 /\ \A k \in 1..3 : rgb[k] \in 0..255

\* a run added to the paragraph; rgb is << >> while no color was set
NewRun(run_text, style, rgb) ==
    [text |-> run_text, size |-> style.size, rgb |-> rgb,
     font |-> style.font, bold |-> style.bold]

\* the style every run of a block gets (lines 565-567)
BlockStyle(block) ==
    [size |-> Get(block, "font_size_pt", 12),
     font |-> Get(block, "font_family", "Roboto"),
     bold |-> Get(block, "is_bold", FALSE)]

\* one iteration of `for color_info in colors` (lines 573-585);
\* st = [runs, covered, raised]
ColorStep(text, style, st, color_info) ==
    LET rng == Get(color_info, "range", <<0, Len(text)>>)
        rgb == Get(color_info, "rgb", BLACK)
    IN  IF st.raised THEN st
        ELSE IF Len(rng) # 2 THEN [st EXCEPT !.raised = TRUE]
        ELSE LET run_text == PySlice(text, rng[1], rng[2])
             IN  IF run_text = << >>
                 THEN [st EXCEPT !.covered = Max2(st.covered, rng[2])]
                 ELSE IF ~RGBColorOk(rgb)
                 THEN [st EXCEPT !.runs = Append(@, NewRun(run_text, style, << >>)),
                                 !.raised = TRUE]
                 ELSE [st EXCEPT !.runs = Append(@, NewRun(run_text, style,
                                                           SubSeq(rgb, 1, 3))),
                                 !.covered = Max2(st.covered, rng[2])]

RECURSIVE ComposeLoop(_, _, _, _)
ComposeLoop(text, style, colors, st) ==
    IF colors = << >> THEN st
    ELSE ComposeLoop(text, style, Tail(colors),
                     ColorStep(text, style, st, Head(colors)))

\* Remainder with `covered <= len(text)` for `covered < len(text)`
Remainder_OffByOne(text, style, st) ==
    IF st.covered <= Len(text)
    THEN [st EXCEPT !.runs = Append(@, NewRun(PySlice(text, st.covered, Len(text)),
                                              style, BLACK))]
    ELSE st

\* the coverage completion after the loop (lines 587-594)
Remainder(text, style, st) ==
    IF st.covered < Len(text)
    THEN [st EXCEPT !.runs = Append(@, NewRun(PySlice(text, st.covered, Len(text)),
                                              style, BLACK))]
    ELSE st

\* ComposeRuns whose else branch sets the text and styles nothing
ComposeRuns_Unstyled(text, style, colors) ==
    IF colors # << >>
    THEN LET st == ComposeLoop(text, style, colors,
                               [runs |-> << >>, covered |-> 0, raised |-> FALSE])
         IN  IF st.raised THEN st ELSE Remainder(text, style, st)
    ELSE [runs |-> <<NewRun(text, [size |-> 18, font |-> "Calibri", bold |-> FALSE],
                            << >>)>>,
          covered |-> 0, raised |-> FALSE]

\* lines 570-602: the runs of the paragraph of a block with non-empty text
ComposeRuns(text, style, colors) ==
    IF colors # << >>
    THEN LET st == ComposeLoop(text, style, colors,
                               [runs |-> << >>, covered |-> 0, raised |-> FALSE])
         IN  IF st.raised THEN st ELSE Remainder(text, style, st)
    ELSE [runs |-> <<NewRun(text, style, BLACK)>>, covered |-> 0, raised |-> FALSE]

----------------------------------------------------------------------------
\* Slide Assembler: one text block (lines 535-602)

\* FloorSize that replaces a size of zero only
FloorSize_ZeroOnly(pt, replacement) == IF pt[1] = 0 THEN <<replacement, 1>> ELSE pt

\* lines 550-553: the floor on a mapped width or height
FloorSize(pt, replacement) == IF RatLt(pt, <<10, 1>>) THEN <<replacement, 1>> ELSE pt

\* AddTextBlock that tests the bbox only: a block with empty text gets a text
\* box with an empty paragraph
AddTextBlock_EmptyBox(slide, block) ==
    IF "bbox_1000" \notin DOMAIN block THEN [slide |-> slide, raised |-> FALSE]
    ELSE LET bbox == block["bbox_1000"]
             text == Get(block, "text", << >>)
         IN  IF Len(bbox) # 4 THEN [slide |-> slide, raised |-> TRUE]
             ELSE [slide  |-> [slide EXCEPT !.textboxes = Append(@,
                                  [left   |-> NormToPt(bbox[1], page_width),
                                   top    |-> NormToPt(bbox[2], page_height),
                                   width  |-> FloorSize(NormToPt(bbox[3], page_width), 50),
                                   height |-> FloorSize(NormToPt(bbox[4], page_height), 30),
                                   word_wrap |-> FALSE,
                                   margins |-> <<0, 0, 0, 0>>,
                                   runs   |-> IF text = << >> THEN << >>
                                              ELSE ComposeRuns(text, BlockStyle(block),
                                                       Get(block, "colors", << >>)).runs])],
                   raised |-> FALSE]

\* the body of `for block in blocks` applied to a slide;
\* the result is [slide, raised]
AddTextBlock(slide, block) ==
    LET text == Get(block, "text", << >>)
    IN  IF text = << >> THEN [slide |-> slide, raised |-> FALSE]
        ELSE IF "bbox_1000" \notin DOMAIN block THEN [slide |-> slide, raised |-> FALSE]
        ELSE LET bbox == block["bbox_1000"]
             IN  IF Len(bbox) # 4 THEN [slide |-> slide, raised |-> TRUE]
                 ELSE LET c == ComposeRuns(text, BlockStyle(block),
                                           Get(block, "colors", << >>))
                          textbox ==
                              [left   |-> NormToPt(bbox[1], page_width),
                               top    |-> NormToPt(bbox[2], page_height),
                               width  |-> FloorSize(NormToPt(bbox[3], page_width), 50),
                               height |-> FloorSize(NormToPt(bbox[4], page_height), 30),
                               word_wrap |-> FALSE,
                               margins |-> <<0, 0, 0, 0>>,
                               runs   |-> c.runs]
                     IN  [slide  |-> [slide EXCEPT !.textboxes = Append(@, textbox)],
                          raised |-> c.raised]

----------------------------------------------------------------------------
\* Graphic Region Extractor (lines 464-532)

\* lines 482-489: the pixel boxes (x1, y1, x2, y2) of the blocks that have a
\* bbox_1000; the result is [regions, raised]
RECURSIVE TextRegions(_, _)
TextRegions(bs, img) ==
    IF bs = << >> THEN [regions |-> << >>, raised |-> FALSE]
    ELSE IF "bbox_1000" \notin DOMAIN Head(bs) THEN TextRegions(Tail(bs), img)
    ELSE LET bbox == Head(bs)["bbox_1000"]
         IN  IF Len(bbox) # 4 THEN [regions |-> << >>, raised |-> TRUE]
             ELSE LET px == NormToPx(bbox[1], img.w)
                      py == NormToPx(bbox[2], img.h)
                      pw == NormToPx(bbox[3], img.w)
                      ph == NormToPx(bbox[4], img.h)
                      rest == TextRegions(Tail(bs), img)
                  IN  [regions |-> <<(<<px, py, px + pw, py + ph>>)>> \o rest.regions,
                       raised  |-> rest.raised]

\* IsTextArea that tests the first text region only
IsTextArea_FirstOnly(c, text_regions) ==
    \E k \in 1..Min2(1, Len(text_regions)) :
        LET t   == text_regions[k]
            ox1 == Max2(c.x, t[1])
            oy1 == Max2(c.y, t[2])
            ox2 == Min2(c.x + c.w, t[3])
            oy2 == Min2(c.y + c.h, t[4])
        IN  /\ ox2 > ox1
            /\ oy2 > oy1
            /\ 10 * ((ox2 - ox1) * (oy2 - oy1)) > 3 * (c.w * c.h)

\* lines 500-510: the overlap test of one contour box against the text regions;
\* overlap / (w * h) > 0.3 is 10 * overlap > 3 * w * h
IsTextArea(c, text_regions) ==
    \E k \in 1..Len(text_regions) :
        LET t   == text_regions[k]
            ox1 == Max2(c.x, t[1])
            oy1 == Max2(c.y, t[2])
            ox2 == Min2(c.x + c.w, t[3])
            oy2 == Min2(c.y + c.h, t[4])
        IN  /\ ox2 > ox1
            /\ oy2 > oy1
            /\ 10 * ((ox2 - ox1) * (oy2 - oy1)) > 3 * (c.w * c.h)

\* lines 524-530: the picture of a contour box, at its page-unit box
Picture(c, img) ==
    [x |-> c.x, y |-> c.y, w |-> c.w, h |-> c.h,
     left   |-> PxToPt(c.x, img.w, page_width),
     top    |-> PxToPt(c.y, img.h, page_height),
     width  |-> PxToPt(c.w, img.w, page_width),
     height |-> PxToPt(c.h, img.h, page_height)]

\* lines 492-532: the pictures placed for the contours, in contour order
RECURSIVE PlaceContours(_, _, _)
PlaceContours(contours, text_regions, img) ==
    IF contours = << >> THEN << >>
    ELSE LET c    == Head(contours)
             rest == PlaceContours(Tail(contours), text_regions, img)
         IN  IF c.area < 1000 THEN rest
             ELSE IF IsTextArea(c, text_regions) THEN rest
             ELSE IF ~c.place_ok THEN rest     \* add_picture raised: except: pass
             ELSE <<Picture(c, img)>> \o rest

\* lines 464-532 applied to a slide; the result is [slide, raised]
ExtractGraphics(slide, bs, img) ==
    IF ~img.cv THEN [slide |-> slide, raised |-> FALSE]   \* cv_img is None
    ELSE LET tr == TextRegions(bs, img)
         IN  IF tr.raised THEN [slide |-> slide, raised |-> TRUE]
             ELSE [slide  |-> [slide EXCEPT !.pictures =
                                  @ \o PlaceContours(img.contours, tr.regions, img)],
                   raised |-> FALSE]

----------------------------------------------------------------------------
\* Background Estimator: get_background_color (lines 421-430)
\*
\* An image is [pil, cv, w, h, px, contours]: px gives the pixel at a
\* coordinate <<x, y>>, a pixel being the sequence of its bands (R, G, B and
\* possibly alpha).

\* image.getpixel(xy): PIL counts a negative coordinate from the far edge and
\* raises IndexError for a coordinate that is then outside the image; the
\* result is [raised, value]
GetPixel(image, xy) ==
    LET x == IF xy[1] < 0 THEN image.w + xy[1] ELSE xy[1]
        y == IF xy[2] < 0 THEN image.h + xy[2] ELSE xy[2]
    IN  IF x < 0 \/ x >= image.w \/ y < 0 \/ y >= image.h
        THEN [raised |-> TRUE, value |-> << >>]
        ELSE [raised |-> FALSE, value |-> image.px[<<x, y>>]]

\* lines 424-427: the four coordinates, in the order they are sampled
Corners(w, h) == << <<10, 10>>, <<w - 11, 10>>, <<10, h - 11>>, <<w - 11, h - 11>> >>

\* lines 423-428: the list of the pixels at the coordinates xys; the first
\* getpixel that raises ends it
RECURSIVE GetPixels(_, _)
GetPixels(image, xys) ==
    IF xys = << >> THEN [raised |-> FALSE, value |-> << >>]
    ELSE LET p == GetPixel(image, Head(xys))
         IN  IF p.raised THEN [raised |-> TRUE, value |-> << >>]
             ELSE LET rest == GetPixels(image, Tail(xys))
                  IN  [raised |-> rest.raised,
                       value  |-> IF rest.raised THEN << >> ELSE <<p.value>> \o rest.value]

\* line 429: s[:3] if len(s) > 3 else s
DropAlpha(s) == IF Len(s) > 3 THEN SubSeq(s, 1, 3) ELSE s

\* Counter[s] += 1: a Counter is the sequence of its items [elem, count] in
\* the order the elements were first counted
CounterAdd(cnt, s) ==
    IF \E k \in 1..Len(cnt) : cnt[k].elem = s
    THEN [k \in 1..Len(cnt) |->
             IF cnt[k].elem = s THEN [cnt[k] EXCEPT !.count = @ + 1] ELSE cnt[k]]
    ELSE Append(cnt, [elem |-> s, count |-> 1])

\* Counter(samples)
RECURSIVE Counter(_)
Counter(samples) ==
    IF samples = << >> THEN << >>
    ELSE CounterAdd(Counter(SubSeq(samples, 1, Len(samples) - 1)), samples[Len(samples)])

\* MaxByCount that lets a later item of the same count replace the best
RECURSIVE MaxByCount_LastWins(_, _)
MaxByCount_LastWins(items, best) ==
    IF items = << >> THEN best
    ELSE MaxByCount_LastWins(Tail(items),
                    IF Head(items).count >= best.count THEN Head(items) ELSE best)

\* max(items, key=count), to which most_common(1) comes down: an item replaces
\* the best so far only if its count is greater
RECURSIVE MaxByCount(_, _)
MaxByCount(items, best) ==
    IF items = << >> THEN best
    ELSE MaxByCount(Tail(items),
                    IF Head(items).count > best.count THEN Head(items) ELSE best)

\* Counter(samples).most_common(1)[0][0] for a non-empty list    (line 430)
MostCommon(samples) ==
    LET cnt == Counter(samples)
    IN  MaxByCount(Tail(cnt), Head(cnt)).elem

\* lines 421-430; the result is [raised, value]
get_background_color(image) ==
    LET g == GetPixels(image, Corners(image.w, image.h))
    IN  IF g.raised THEN [raised |-> TRUE, value |-> << >>]
        ELSE [raised |-> FALSE,
              value  |-> MostCommon([k \in 1..Len(g.value) |-> DropAlpha(g.value[k])])]

----------------------------------------------------------------------------
\* generate_pptx_from_analysis (lines 393-605): the page loop

\* a slide as add_slide leaves it; bg is << >> while no background was set
BlankSlide(n) == [page |-> n, bg |-> << >>, pictures |-> << >>, textboxes |-> << >>]

\* AddSlide that skips a page with no entry in the analysis
AddSlide_SkipMissing(p, n) == IF n \in DOMAIN analysis THEN Append(p, BlankSlide(n)) ELSE p

\* prs.slides.add_slide(blank_layout)                          (lines 445-446)
AddSlide(p, n) == Append(p, BlankSlide(n))

\* job["progress"] = 65 + int(page_num / total_pages * 30)          (line 443)
GenProgress(n) == 65 + TruncDiv(n * 30, total_pages)

\* lines 460-462: the blocks of page n; a page without an entry has none
PageBlocksOf(n) == Get(Get(analysis, n, [blocks |-> << >>]), "blocks", << >>)

\* lines 441-462: the head of one iteration of the page loop: the progress, the
\* new slide, the page image and its background, the page's blocks
GenStartPage ==
    /\ gen_pc = "loop"
    /\ page_num < total_pages
    /\ LET n     == page_num + 1
           img   == pages_dir[n]
           added == AddSlide(prs, n)
       IN  /\ page_num' = n
           /\ gen_progress' = GenProgress(n)
           /\ IF img.pil /\ ~get_background_color(img).raised
              THEN /\ prs' = [added EXCEPT ![Len(added)].bg =
                                                 get_background_color(img).value]
                   /\ blocks' = PageBlocksOf(n)
                   /\ gen_pc' = "graphics"
              ELSE \* Image.open or getpixel raised
                   /\ prs' = added
                   /\ blocks' = << >>
                   /\ gen_pc' = "raised"
    /\ block_i' = 0
    /\ UNCHANGED <<total_pages, page_width, page_height, analysis, pages_dir>>
    /\ UNCHANGED <<mapVars, jobVars>>

\* lines 464-532: the graphic elements of the current page
GenGraphics ==
    /\ gen_pc = "graphics"
    /\ LET r == ExtractGraphics(prs[page_num], blocks, pages_dir[page_num])
       IN  /\ prs' = [prs EXCEPT ![page_num] = r.slide]
           /\ gen_pc' = IF r.raised THEN "raised" ELSE "text"
    /\ block_i' = 0
    /\ UNCHANGED <<total_pages, page_width, page_height, analysis, pages_dir,
                   page_num, blocks, gen_progress>>
    /\ UNCHANGED <<mapVars, jobVars>>

\* lines 535-602: one iteration of the text-block loop
GenTextBlock ==
    /\ gen_pc = "text"
    /\ block_i < Len(blocks)
    /\ LET r == AddTextBlock(prs[page_num], blocks[block_i + 1])
       IN  /\ prs' = [prs EXCEPT ![page_num] = r.slide]
           /\ gen_pc' = IF r.raised THEN "raised" ELSE "text"
    /\ block_i' = block_i + 1
    /\ UNCHANGED <<total_pages, page_width, page_height, analysis, pages_dir,
                   page_num, blocks, gen_progress>>
    /\ UNCHANGED <<mapVars, jobVars>>

\* the text-block loop is exhausted: back to the head of the page loop
GenEndPage ==
    /\ gen_pc = "text"
    /\ block_i = Len(blocks)
    /\ gen_pc' = "loop"
    /\ UNCHANGED <<total_pages, page_width, page_height, analysis, pages_dir,
                   prs, page_num, blocks, block_i, gen_progress>>
    /\ UNCHANGED <<mapVars, jobVars>>

\* lines 604-605: the page loop is exhausted: save the deck
GenSave ==
    /\ gen_pc = "loop"
    /\ page_num = total_pages
    /\ gen_progress' = 98
    /\ gen_pc' = "done"
    /\ UNCHANGED <<total_pages, page_width, page_height, analysis, pages_dir,
                   prs, page_num, blocks, block_i>>
    /\ UNCHANGED <<mapVars, jobVars>>

GenNext ==
    \/ GenStartPage
    \/ GenGraphics
    \/ GenTextBlock
    \/ GenEndPage
    \/ GenSave

\* the parts of the state a specification does not use
MapIdle ==
    /\ map_n = 0 /\ map_img = 1 /\ map_page = 1
    /\ map_px = 0 /\ map_via_px = <<0, 1>> /\ map_direct = <<0, 1>>
    /\ map_pc = "idle"

JobIdle ==
    /\ api_key = FALSE
    /\ jobs = {}
    /\ job_dict = << >>
    /\ created = 0
    /\ pdfs = << >>
    /\ job_dirs = {}
    /\ outputs = {}
    /\ tasks = << >>
    /\ resp = [op |-> "none", job_id |-> 0, code |-> 0, file |-> FALSE]

GenIdle ==
    /\ total_pages = 0 /\ page_width = 1 /\ page_height = 1
    /\ analysis = << >> /\ pages_dir = << >>
    /\ prs = << >> /\ page_num = 0 /\ blocks = << >> /\ block_i = 0
    /\ gen_pc = "idle" /\ gen_progress = 0

\* the function's state on entry, for given arguments and files
GenEntry(tp, pw, ph, an, dir) ==
    /\ total_pages = tp
    /\ page_width = pw
    /\ page_height = ph
    /\ analysis = an
    /\ pages_dir = dir
    /\ prs = << >>
    /\ page_num = 0
    /\ blocks = << >>
    /\ block_i = 0
    /\ gen_pc = "loop"
    /\ gen_progress = 65
    /\ MapIdle
    /\ JobIdle

----------------------------------------------------------------------------
\* Inputs of the Text Run Composer: one page, one block with a regular bbox,
\* every text up to MaxLen and every colors list up to MaxColors

MaxLen == 2

MaxColors == 2

Alphabet == <<"A", "B", "C", "D", "E", "F">>

\* the texts: one of each length (the code never looks at the characters)
Texts == {SubSeq(Alphabet, 1, n) : n \in 0..MaxLen}

RED == <<255, 0, 0>>

\* range indices: below -len(text), the last character counted from the end,
\* and from 0 to above len(text)
Indices == {0 - (MaxLen + 1), -1} \cup (0..(MaxLen + 1))

ColorInfos ==
    {[range |-> <<s, e>>, rgb |-> RED] : s \in Indices, e \in Indices}
    \cup {[range |-> <<0, 1>>], [rgb |-> RED]}

SeqsUpTo(S, n) == UNION {[1..k -> S] : k \in 0..n}

\* a page image that opens, decodes and shows no contour
PlainImage ==
    [pil |-> TRUE, cv |-> TRUE, w |-> 100, h |-> 100,
     px |-> [xy \in {<<10, 10>>, <<89, 10>>, <<10, 89>>, <<89, 89>>} |-> <<255, 255, 255>>],
     contours |-> << >>]

InitCompose ==
    \E text \in Texts, colors \in SeqsUpTo(ColorInfos, MaxColors) :
        GenEntry(1, 1000, 500,
                 1 :> [replace_all |-> TRUE,
                       blocks |-> <<[text |-> text, bbox_1000 |-> <<0, 0, 500, 100>>,
                                     font_family |-> "Merriweather", is_bold |-> TRUE,
                                     font_size_pt |-> 24, colors |-> colors]>>],
                 1 :> PlainImage)

SpecCompose == InitCompose /\ [][GenNext]_vars

----------------------------------------------------------------------------
\* What the claims speak about

\* the block the text-block loop has just been through
LastBlock == blocks[block_i]

\* a block for which the loop body creates a text box
Placed(b) ==
    /\ Get(b, "text", << >>) # << >>
    /\ "bbox_1000" \in DOMAIN b
    /\ Len(b["bbox_1000"]) = 4

\* the loop body has run for LastBlock (it may have raised)
BlockProcessed == gen_pc \in {"text", "raised"} /\ block_i >= 1

\* the loop body has run to its end for LastBlock and has created a text box
BlockComposed == gen_pc = "text" /\ block_i >= 1 /\ Placed(LastBlock)

\* the text box created last on the current slide
LastBox == LET tbs == prs[page_num].textboxes IN tbs[Len(tbs)]

RunTexts(box) == [k \in 1..Len(box.runs) |-> box.runs[k].text]

\* the range a color_info declares (line 574)
RangeOf(color_info, text) == Get(color_info, "range", <<0, Len(text)>>)

\* an index limited to [0, n]
Clamp(i, n) == Min2(Max2(i, 0), n)

SetMax(S) == CHOOSE m \in S : \A x \in S : x <= m

\* C1: the texts of the runs of a composed block, concatenated in order, are
\* the block's text
C1_Coverage ==
    BlockComposed => Concat(RunTexts(LastBox)) = LastBlock["text"]

\* a range that is reversed or reaches outside [0, len(text)]
BadRange(r, n) == r[1] > r[2] \/ r[1] < 0 \/ r[2] < 0 \/ r[1] > n \/ r[2] > n

\* C3: a block one of whose color ranges is reversed or out of bounds is
\* composed without an exception, and every character position of its text is
\* in some emitted run (the characters of a text are pairwise distinct, so a
\* position is in a run exactly if its character is)
C3_NoCrashNoDrop ==
    (/\ BlockProcessed
     /\ Placed(LastBlock)
     /\ LET text == LastBlock["text"]
            cs   == Get(LastBlock, "colors", << >>)
        IN  /\ \A k \in 1..Len(cs) : Len(RangeOf(cs[k], text)) = 2
            /\ \E k \in 1..Len(cs) : BadRange(RangeOf(cs[k], text), Len(text)))
    => /\ gen_pc # "raised"
       /\ \A i \in 1..Len(LastBlock["text"]) :
              \E k \in 1..Len(LastBox.runs) :
                  \E j \in 1..Len(LastBox.runs[k].text) :
                      LastBox.runs[k].text[j] = LastBlock["text"][i]

\* the largest range end seen, each end limited to [0, len(text)]
MaxEndSeen(cs, text) ==
    SetMax({0} \cup {Clamp(RangeOf(cs[k], text)[2], Len(text)) : k \in 1..Len(cs)})

\* the number of declared ranges that gave a run
DeclaredRuns(cs, text) ==
    Cardinality({k \in 1..Len(cs) :
                    PySlice(text, RangeOf(cs[k], text)[1], RangeOf(cs[k], text)[2]) # << >>})

\* C9: after the declared ranges of a block, a largest range end below
\* len(text) gives exactly one more run, the last, with the text from that end
\* on and in black; a largest range end of len(text) or more gives none
C9_CoverageCompletion ==
    (BlockComposed /\ Get(LastBlock, "colors", << >>) # << >>)
    => LET text == LastBlock["text"]
           cs   == LastBlock["colors"]
           m    == MaxEndSeen(cs, text)
           runs == LastBox.runs
       IN  IF m < Len(text)
           THEN /\ Len(runs) = DeclaredRuns(cs, text) + 1
                /\ runs[Len(runs)].text = SubSeq(text, m + 1, Len(text))
                /\ runs[Len(runs)].rgb = <<0, 0, 0>>
           ELSE Len(runs) = DeclaredRuns(cs, text)

\* C9, reached: "AB" with the one range [0, 1] in red is "A" in red, "B" in black
C9_Witness ==
    /\ BlockComposed
    /\ LastBlock["text"] = <<"A", "B">>
    /\ LastBlock["colors"] = <<[range |-> <<0, 1>>, rgb |-> <<255, 0, 0>>]>>
    /\ Len(LastBox.runs) = 2
    /\ LastBox.runs[1].text = <<"A">> /\ LastBox.runs[1].rgb = <<255, 0, 0>>
    /\ LastBox.runs[2].text = <<"B">> /\ LastBox.runs[2].rgb = <<0, 0, 0>>

----------------------------------------------------------------------------
\* Inputs of the Slide Assembler: one page of up to MaxBlocks blocks, each
\* field of a block present or absent, well-formed or not

MaxBlocks == 2

\* a dict with no key
NoField == << >>

TextFields == {NoField, [text |-> << >>], [text |-> <<"A", "B">>]}

BBoxFields == {NoField, [bbox_1000 |-> <<0, 0, 500, 100>>], [bbox_1000 |-> <<0, 0, 500>>]}

FontFields ==
    {NoField, [font_family |-> "Merriweather", is_bold |-> TRUE, font_size_pt |-> 24]}

ColorsFields ==
    {NoField,
     [colors |-> << >>],
     [colors |-> <<[range |-> <<0, 1>>, rgb |-> RED]>>],
     [colors |-> <<[range |-> <<0, 1, 2>>, rgb |-> RED]>>],
     [colors |-> <<[range |-> <<0, 1>>, rgb |-> <<256, 0, 0>>]>>]}

\* the font and the colors of a block; colored ranges come with a font
StyleFields ==
    {c \in ColorsFields : Get(c, "colors", << >>) = << >>}
    \cup {f @@ c : f \in FontFields \ {NoField}, c \in ColorsFields}

PageBlocks ==
    {t @@ b @@ st : t \in TextFields, b \in BBoxFields, st \in StyleFields}

\* a contour of 40 x 40 pixels away from every text region of these inputs
FarContour(ok) == [x |-> 10, y |-> 50, w |-> 40, h |-> 40, area |-> 1521, place_ok |-> ok]

\* the page image: unreadable for PIL, undecodable for OpenCV, or readable
\* with no contour, with one that is placed, with one whose placement fails
PageImages ==
    {[PlainImage EXCEPT !.pil = FALSE, !.cv = FALSE],
     [PlainImage EXCEPT !.cv = FALSE],
     PlainImage,
     [PlainImage EXCEPT !.contours = <<FarContour(TRUE)>>],
     [PlainImage EXCEPT !.contours = <<FarContour(FALSE)>>]}

\* the page_data of one page for a set of blocks; no entry at all is NoPage
PageDatas(B, n) ==
    {[replace_all |-> TRUE]}
    \cup {[replace_all |-> TRUE, blocks |-> bs] : bs \in SeqsUpTo(B, n)}

InitPage ==
    \E an \in {<< >>} \cup {1 :> pd : pd \in PageDatas(PageBlocks, MaxBlocks)},
       img \in PageImages :
        GenEntry(1, 1000, 500, an, 1 :> img)

SpecPage == InitPage /\ [][GenNext]_vars

----------------------------------------------------------------------------
\* Inputs of the page loop: up to MaxPages pages, each with or without an
\* entry in the analysis, with at most one block, and any page image

MaxPages == 2

DeckBlocks ==
    {[text |-> <<"A", "B">>, bbox_1000 |-> <<0, 0, 500, 100>>,
      colors |-> <<[range |-> <<0, 1>>, rgb |-> RED]>>],
     [text |-> << >>, bbox_1000 |-> <<0, 0, 500, 100>>],
     [text |-> <<"A", "B">>],
     [text |-> <<"A", "B">>, bbox_1000 |-> <<0, 0, 500>>]}

InitDeck ==
    \E tp \in 0..MaxPages :
        \E present \in SUBSET (1..tp) :
            \E an \in [present -> PageDatas(DeckBlocks, 1)], dir \in [1..tp -> PageImages] :
                GenEntry(tp, 1000, 500, an, dir)

SpecDeck == InitDeck /\ [][GenNext]_vars

----------------------------------------------------------------------------
\* The job store, the HTTP handlers and the background task
\* process_pdf_with_gemini (lines 200-390, 608-658)
\*
\* The handlers and the task run on one event loop: a step is what runs
\* between two suspension points.  The task suspends only in
\* asyncio.sleep(0.5) (line 321) and asyncio.sleep(2) (line 372);
\* analyze_image_with_gemini has no await of its own.

MaxJobs == 1

MaxTasks == 2

MaxPolls == 1

JobIds == 1..MaxJobs

\* lines 216-226
NewJob ==
    [status |-> "pending", progress |-> 0, total_pages |-> 0, current_page |-> 0,
     has_output |-> FALSE]

\* a background task at its start; outcome is what the last call of
\* analyze_image_with_gemini did
NewTask(j) ==
    [job_id |-> j, pc |-> "start", total_pages |-> 0, page_num |-> 0,
     analysis_results |-> << >>, outcome |-> "none", polls |-> 0]

Response(op, j, code, file) == [op |-> op, job_id |-> j, code |-> code, file |-> file]

\* lines 200-228: POST /api/upload
upload_pdf ==
    /\ \E is_pdf \in BOOLEAN, pages \in 0..MaxPages :
          IF ~is_pdf
          THEN /\ resp' = Response("upload", 0, 400, FALSE)
               /\ UNCHANGED <<jobs, job_dict, created, pdfs, job_dirs>>
          ELSE /\ created < MaxJobs
               /\ LET j == created + 1
                  IN  /\ created' = j
                      /\ job_dirs' = job_dirs \cup {j}
                      /\ pdfs' = pdfs @@ (j :> pages)
                      /\ job_dict' = job_dict @@ (j :> NewJob)
                      /\ jobs' = jobs \cup {j}
                      /\ resp' = Response("upload", j, 200, FALSE)
    /\ UNCHANGED <<api_key, outputs, tasks>>
    /\ UNCHANGED <<genVars, mapVars>>

\* lines 231-244: POST /api/process/{job_id}
start_processing(j) ==
    /\ IF j \notin jobs
       THEN /\ resp' = Response("process", j, 404, FALSE)
            /\ UNCHANGED <<job_dict, tasks>>
       ELSE IF ~api_key
       THEN /\ resp' = Response("process", j, 500, FALSE)
            /\ UNCHANGED <<job_dict, tasks>>
       ELSE /\ Len(tasks) < MaxTasks
            /\ tasks' = Append(tasks, NewTask(j))
            /\ job_dict' = [job_dict EXCEPT ![j].status = "processing"]
            /\ resp' = Response("process", j, 200, FALSE)
    /\ UNCHANGED <<api_key, jobs, created, pdfs, job_dirs, outputs>>
    /\ UNCHANGED <<genVars, mapVars>>

\* lines 608-612: GET /api/status/{job_id}
get_status(j) ==
    /\ resp' = Response("status", j, IF j \in jobs THEN 200 ELSE 404, FALSE)
    /\ UNCHANGED <<api_key, jobs, job_dict, created, pdfs, job_dirs, outputs, tasks>>
    /\ UNCHANGED <<genVars, mapVars>>

\* download_result without the status test of lines 622-623
download_result_NoStatusCheck(j) ==
    /\ resp' =
          IF j \in jobs
          THEN IF ~job_dict[j].has_output THEN Response("download", j, 500, FALSE)
               ELSE IF j \notin outputs THEN Response("download", j, 404, FALSE)
               ELSE Response("download", j, 200, TRUE)
          ELSE IF j \notin outputs THEN Response("download", j, 404, FALSE)
               ELSE Response("download", j, 200, TRUE)
    /\ UNCHANGED <<api_key, jobs, job_dict, created, pdfs, job_dirs, outputs, tasks>>
    /\ UNCHANGED <<genVars, mapVars>>

\* lines 615-648: GET /api/download/{job_id}; a KeyError on job["output_path"]
\* is answered 500
download_result(j) ==
    /\ resp' =
          IF j \in jobs
          THEN IF job_dict[j].status # "completed" THEN Response("download", j, 400, FALSE)
               ELSE IF ~job_dict[j].has_output THEN Response("download", j, 500, FALSE)
               ELSE IF j \notin outputs THEN Response("download", j, 404, FALSE)
               ELSE Response("download", j, 200, TRUE)
          ELSE IF j \notin outputs THEN Response("download", j, 404, FALSE)
               ELSE Response("download", j, 200, TRUE)
    /\ UNCHANGED <<api_key, jobs, job_dict, created, pdfs, job_dirs, outputs, tasks>>
    /\ UNCHANGED <<genVars, mapVars>>

\* lines 651-658: DELETE /api/job/{job_id}
cleanup_job(j) ==
    /\ jobs' = jobs \ {j}
    /\ job_dirs' = IF j \in jobs THEN job_dirs \ {j} ELSE job_dirs
    /\ resp' = Response("cleanup", j, 200, FALSE)
    /\ UNCHANGED <<api_key, job_dict, created, pdfs, outputs, tasks>>
    /\ UNCHANGED <<genVars, mapVars>>

\* what analyze_image_with_gemini does for one page (lines 301-316): it returns
\* the page's data, returns its own placeholder (the reply was no JSON), or
\* raises and the task puts its placeholder
AnalysisOutcomes == {"data", "parse_error", "analysis_error"}

\* a layout as json.loads gives it for a reply that is JSON (lines 175-176)
GeminiLayout(n) ==
    [replace_all |-> TRUE,
     blocks |-> <<[text |-> <<"Title", n>>, bbox_1000 |-> <<100, 100, 800, 100>>],
                  [text |-> <<"Body", n>>, bbox_1000 |-> <<100, 300, 800, 400>>]>>]

\* lines 180-191: what analyze_image_with_gemini returns on a JSONDecodeError
ParsePlaceholder(n) ==
    [replace_all |-> TRUE,
     blocks |-> <<[text |-> <<"[Page ", n, " - Parse error]">>,
                   bbox_1000 |-> <<50, 50, 900, 100>>,
                   font_family |-> "Roboto", is_bold |-> TRUE, font_size_pt |-> 32,
                   colors |-> <<[range |-> <<0, 30>>, rgb |-> <<30, 30, 30>>]>>]>>]

\* lines 306-316: what the task stores when analyze_image_with_gemini raised
ErrorPlaceholder(n) ==
    [replace_all |-> TRUE,
     blocks |-> <<[text |-> <<"[Page ", n, " - Analysis error: ", "]">>,
                   bbox_1000 |-> <<50, 50, 900, 100>>,
                   font_family |-> "Roboto", is_bold |-> TRUE, font_size_pt |-> 24,
                   colors |-> <<[range |-> <<0, 50>>, rgb |-> <<200, 50, 50>>]>>]>>]

\* AnalyzePage without the except branch's entry: a page whose analysis raised
\* gets no entry
AnalyzePage_DropFailed(results, n, r) ==
    IF r = "analysis_error" THEN results
    ELSE (n :> (IF r = "data" THEN GeminiLayout(n) ELSE ParsePlaceholder(n))) @@ results

\* lines 301-316: analysis_results[f"page_{page_num}"] = ... for page n and
\* outcome r; the dict is a function from page numbers to page data
AnalyzePage(results, n, r) ==
    (n :> (IF r = "data" THEN GeminiLayout(n)
           ELSE IF r = "parse_error" THEN ParsePlaceholder(n)
           ELSE ErrorPlaceholder(n))) @@ results

\* job["progress"] = 20 + int(page_num / total_pages * 40)            (line 297)
AnalyzeProgress(n, total) == 20 + TruncDiv(n * 40, total)

\* lines 385-390: the handler of the task's try; the result is the pair of the
\* job dicts and the task's next place.  jobs[job_id] raises KeyError when the
\* key is gone, and that exception leaves the task
OnException(j) ==
    IF j \in jobs
    THEN <<[job_dict EXCEPT ![j].status = "error", ![j].progress = 0], "done">>
    ELSE <<job_dict, "escaped">>

\* lines 379-383
Completed(job) ==
    [job EXCEPT !.status = "completed", !.progress = 100, !.has_output = TRUE]

\* lines 370-383 after one process.poll(): still running, exit code 0, another
\* exit code; the result is <<job dicts, next place, outputs>>
AfterPoll(j, d, outcome) ==
    IF outcome = "running"
    THEN <<[d EXCEPT ![j].progress = Min2(95, @ + 1)], "sleep_poll", outputs>>
    ELSE IF outcome = "exit0"
    THEN <<[d EXCEPT ![j] = Completed(@)], "done", outputs \cup {j}>>
    ELSE LET e == OnException(j)
         IN  IF j \in jobs
             THEN <<[d EXCEPT ![j].status = "error", ![j].progress = 0], "done", outputs>>
             ELSE <<d, e[2], outputs>>

\* lines 247-321: from the start of the task to its first asyncio.sleep(0.5)
TaskStart(t) ==
    /\ t \in 1..Len(tasks)
    /\ tasks[t].pc = "start"
    /\ LET j == tasks[t].job_id
           n == pdfs[j]
       IN  IF j \notin jobs \/ n = 0
           THEN \* jobs[job_id] or fitz.open raised
                /\ job_dict' = OnException(j)[1]
                /\ tasks' = [tasks EXCEPT ![t].pc = OnException(j)[2]]
           ELSE \E r \in AnalysisOutcomes :
                /\ job_dict' = [job_dict EXCEPT ![j].status = "analyzing",
                                                ![j].total_pages = n,
                                                ![j].current_page = n,
                                                ![j].progress = AnalyzeProgress(1, n)]
                /\ tasks' = [tasks EXCEPT ![t].pc = "sleep_analyze",
                                          ![t].total_pages = n,
                                          ![t].page_num = 1,
                                          ![t].analysis_results =
                                              AnalyzePage(<< >>, 1, r),
                                          ![t].outcome = r]
    /\ UNCHANGED <<api_key, jobs, created, pdfs, job_dirs, outputs, resp>>
    /\ UNCHANGED <<genVars, mapVars>>

\* lines 295-321: the task wakes from asyncio.sleep(0.5) with pages left
TaskAnalyze(t) ==
    /\ t \in 1..Len(tasks)
    /\ tasks[t].pc = "sleep_analyze"
    /\ tasks[t].page_num < tasks[t].total_pages
    /\ LET j == tasks[t].job_id
           n == tasks[t].page_num + 1
       IN  \E r \in IF j \in job_dirs THEN AnalysisOutcomes ELSE {"analysis_error"} :
              /\ job_dict' = [job_dict EXCEPT ![j].progress =
                                                 AnalyzeProgress(n, tasks[t].total_pages)]
              /\ tasks' = [tasks EXCEPT ![t].page_num = n,
                                        ![t].analysis_results = AnalyzePage(@, n, r),
                                        ![t].outcome = r]
    /\ UNCHANGED <<api_key, jobs, created, pdfs, job_dirs, outputs, resp>>
    /\ UNCHANGED <<genVars, mapVars>>

\* lines 323-383: the task wakes from the last asyncio.sleep(0.5): it saves
\* the analysis, starts the converter and polls it once
TaskGenerate(t) ==
    /\ t \in 1..Len(tasks)
    /\ tasks[t].pc = "sleep_analyze"
    /\ tasks[t].page_num = tasks[t].total_pages
    /\ LET j == tasks[t].job_id
       IN  IF j \notin job_dirs
           THEN \* open(json_path, "w") raised
                /\ job_dict' = OnException(j)[1]
                /\ tasks' = [tasks EXCEPT ![t].pc = OnException(j)[2]]
                /\ UNCHANGED outputs
           ELSE \E outcome \in {"running", "exit0", "exit1"} :
                LET d == [job_dict EXCEPT ![j].progress = 65, ![j].status = "generating"]
                    r == AfterPoll(j, d, outcome)
                IN  /\ job_dict' = r[1]
                    /\ tasks' = [tasks EXCEPT ![t].pc = r[2]]
                    /\ outputs' = r[3]
    /\ UNCHANGED <<api_key, jobs, created, pdfs, job_dirs, resp>>
    /\ UNCHANGED <<genVars, mapVars>>

\* lines 370-390: the task wakes from asyncio.sleep(2) and polls the converter
TaskPoll(t) ==
    /\ t \in 1..Len(tasks)
    /\ tasks[t].pc = "sleep_poll"
    /\ LET j == tasks[t].job_id
       IN  \E outcome \in {"running", "exit0", "exit1"} :
              /\ outcome = "running" => tasks[t].polls < MaxPolls
              /\ LET r == AfterPoll(j, job_dict, outcome)
                 IN  /\ job_dict' = r[1]
                     /\ tasks' = [tasks EXCEPT ![t].pc = r[2], ![t].polls = @ + 1]
                     /\ outputs' = r[3]
    /\ UNCHANGED <<api_key, jobs, created, pdfs, job_dirs, resp>>
    /\ UNCHANGED <<genVars, mapVars>>

Init ==
    /\ api_key \in BOOLEAN
    /\ jobs = {}
    /\ job_dict = << >>
    /\ created = 0
    /\ pdfs = << >>
    /\ job_dirs = {}
    /\ outputs = {}
    /\ tasks = << >>
    /\ resp = Response("none", 0, 0, FALSE)
    /\ GenIdle
    /\ MapIdle

Next ==
    \/ upload_pdf
    \/ \E j \in JobIds : start_processing(j)
    \/ \E j \in JobIds : get_status(j)
    \/ \E j \in JobIds : download_result(j)
    \/ \E j \in JobIds : cleanup_job(j)
    \/ \E t \in 1..MaxTasks : TaskStart(t)
    \/ \E t \in 1..MaxTasks : TaskAnalyze(t)
    \/ \E t \in 1..MaxTasks : TaskGenerate(t)
    \/ \E t \in 1..MaxTasks : TaskPoll(t)

Spec == Init /\ [][Next]_vars

\* C2: no step lowers the progress stored in a job's record
C2_ProgressMonotone ==
    [][\A j \in DOMAIN job_dict : job_dict'[j].progress >= job_dict[j].progress]_vars

----------------------------------------------------------------------------
\* Inputs of the Graphic Region Extractor: one page whose blocks have bounding
\* boxes of several places and sizes, an image of 100 x 100 pixels with up to
\* MaxContours contours

MaxContours == 2

GfxBlocks ==
    {[text |-> <<"A", "B">>, bbox_1000 |-> b] :
        b \in {<<0, 0, 150, 400>>, <<0, 0, 200, 400>>, <<300, 300, 400, 400>>,
               <<600, 0, -200, 400>>, <<0, 600, 1000, 100>>}}
    \cup {[text |-> << >>, bbox_1000 |-> <<0, 0, 200, 400>>], [text |-> <<"A", "B">>]}

\* a contour with bounding box (x, y, w, h): a filled rectangle, or a thin
\* outline whose area is below the noise floor
GfxContours ==
    {[x |-> b[1], y |-> b[2], w |-> b[3], h |-> b[4], area |-> a, place_ok |-> TRUE] :
        b \in {<<0, 0, 50, 40>>, <<30, 30, 50, 40>>, <<0, 50, 40, 40>>,
               <<40, 0, 60, 100>>},
        a \in {999, 1000}}
    \cup {[x |-> 0, y |-> 0, w |-> 50, h |-> 40, area |-> 1911, place_ok |-> FALSE]}

InitGfx ==
    \E bs \in SeqsUpTo(GfxBlocks, MaxBlocks), cs \in SeqsUpTo(GfxContours, MaxContours) :
        GenEntry(1, 1000, 500,
                 1 :> [replace_all |-> TRUE, blocks |-> bs],
                 1 :> [PlainImage EXCEPT !.contours = cs])

SpecGfx == InitGfx /\ [][GenNext]_vars

----------------------------------------------------------------------------
\* The Coordinate Mapper on one value: normalized -> pixel -> page units, and
\* normalized -> page units

MaxImgDim == 8

NormValues == 0..1000

\* image sizes: tiny ones, and those of a Letter page rasterized at 1.5
ImgDims == (1..MaxImgDim) \cup {918, 1188}

PageDims == {612, 792, 1000}

InitMap ==
    /\ map_n \in NormValues
    /\ map_img \in ImgDims
    /\ map_page \in PageDims
    /\ map_px = 0
    /\ map_via_px = <<0, 1>>
    /\ map_direct = <<0, 1>>
    /\ map_pc = "start"
    /\ GenIdle
    /\ JobIdle

MapNormToPx ==
    /\ map_pc = "start"
    /\ map_px' = NormToPx(map_n, map_img)
    /\ map_pc' = "px"
    /\ UNCHANGED <<map_n, map_img, map_page, map_via_px, map_direct>>
    /\ UNCHANGED <<genVars, jobVars>>

MapPxToPt ==
    /\ map_pc = "px"
    /\ map_via_px' = PxToPt(map_px, map_img, map_page)
    /\ map_pc' = "pt"
    /\ UNCHANGED <<map_n, map_img, map_page, map_px, map_direct>>
    /\ UNCHANGED <<genVars, jobVars>>

MapNormToPt ==
    /\ map_pc = "pt"
    /\ map_direct' = NormToPt(map_n, map_page)
    /\ map_pc' = "done"
    /\ UNCHANGED <<map_n, map_img, map_page, map_px, map_via_px>>
    /\ UNCHANGED <<genVars, jobVars>>

MapNext ==
    \/ MapNormToPx
    \/ MapPxToPt
    \/ MapNormToPt

SpecMap == InitMap /\ [][MapNext]_vars

----------------------------------------------------------------------------
\* Claims about the assembled page

\* C4: nothing but an unreadable page image makes the assembly of a page raise:
\* no defect of the layout data does
C4_DefectsNeverRaise ==
    gen_pc = "raised" => ~pages_dir[page_num].pil

\* the graphics of a page with blocks bs failed: the image did not decode, or
\* a picture was extracted and its placement failed
GraphicFailure(img, bs) ==
    \/ ~img.cv
    \/ /\ ~TextRegions(bs, img).raised
       /\ \E k \in 1..Len(img.contours) :
             /\ img.contours[k].area >= 1000
             /\ ~IsTextArea(img.contours[k], TextRegions(bs, img).regions)
             /\ ~img.contours[k].place_ok

\* the blocks with non-empty text and a bbox
Eligible(bs) ==
    {k \in 1..Len(bs) : Get(bs[k], "text", << >>) # << >> /\ "bbox_1000" \in DOMAIN bs[k]}

\* the current page is over: the loop is back at its head, or it was left
PageOver == page_num >= 1 /\ gen_pc \in {"loop", "done", "raised"}

\* C5: a page whose image opened and whose graphics failed is assembled to the
\* end, and its slide has one text box for every block with non-empty text and
\* a bbox
C5_GraphicFailureKeepsText ==
    (PageOver /\ pages_dir[page_num].pil /\ GraphicFailure(pages_dir[page_num], blocks))
    => /\ gen_pc # "raised"
       /\ Len(prs[page_num].textboxes) = Cardinality(Eligible(blocks))

\* C6: the deck holds one slide for each page begun, the i-th built from page
\* i; when the loop is at its head the pages 1..page_num are done and the deck
\* holds exactly page_num slides; the deck is saved only after the last page
C6_OneSlidePerPage ==
    /\ page_num <= total_pages
    /\ Len(prs) = page_num
    /\ \A i \in 1..Len(prs) : prs[i].page = i
    /\ gen_pc = "done" => page_num = total_pages

\* C6, reached: a saved deck of two slides whose second page had no entry
C6_Witness ==
    /\ gen_pc = "done"
    /\ total_pages = 2
    /\ 2 \notin DOMAIN analysis
    /\ Len(prs) = 2
    /\ prs[2].page = 2

\* the area two boxes (x1, y1, x2, y2) share
OverlapArea(a, b) ==
    Max2(0, Min2(a[3], b[3]) - Max2(a[1], b[1]))
    * Max2(0, Min2(a[4], b[4]) - Max2(a[2], b[2]))

\* the pixel box of a block's bbox_1000 on the image of page i
PixelBox(bbox, i) ==
    LET img == pages_dir[i]
        x == NormToPx(bbox[1], img.w)
        y == NormToPx(bbox[2], img.h)
    IN  <<x, y, x + NormToPx(bbox[3], img.w), y + NormToPx(bbox[4], img.h)>>

\* C7: no picture on a slide shares more than 0.3 of its box with the pixel
\* box of a block of its page
C7_NoTextOverlap ==
    \A i \in 1..Len(prs) :
        \A p \in 1..Len(prs[i].pictures) :
            \A k \in 1..Len(PageBlocksOf(i)) :
                LET pic == prs[i].pictures[p]
                    b   == PageBlocksOf(i)[k]
                IN  ("bbox_1000" \in DOMAIN b /\ Len(b["bbox_1000"]) = 4)
                    => 10 * OverlapArea(<<pic.x, pic.y, pic.x + pic.w, pic.y + pic.h>>,
                                        PixelBox(b["bbox_1000"], i))
                       <= 3 * (pic.w * pic.h)

\* C7, reached: a picture is placed that shares exactly 0.3 of its box with a
\* text block, on a page where another contour was given
C7_Witness ==
    /\ gen_pc = "done"
    /\ Len(pages_dir[1].contours) = 2
    /\ \E p \in 1..Len(prs[1].pictures) :
          \E k \in 1..Len(PageBlocksOf(1)) :
              LET pic == prs[1].pictures[p]
                  b   == PageBlocksOf(1)[k]
              IN  /\ "bbox_1000" \in DOMAIN b
                  /\ 10 * OverlapArea(<<pic.x, pic.y, pic.x + pic.w, pic.y + pic.h>>,
                                      PixelBox(b["bbox_1000"], 1))
                     = 3 * (pic.w * pic.h)

\* |p - q| for rationals
RatAbsDiff(p, q) ==
    LET d == p[1] * q[2] - q[1] * p[2]
    IN  <<IF d >= 0 THEN d ELSE 0 - d, p[2] * q[2]>>

\* C8: a normalized value taken to pixels and from there to page units is
\* within one pixel's page-unit size of the value taken to page units directly
C8_RoundTrip ==
    map_pc = "done"
    => RatLe(RatAbsDiff(map_via_px, map_direct), <<map_page, map_img>>)

\* C8, reached: a round trip that lost a fraction of a pixel
C8_Witness ==
    /\ map_pc = "done"
    /\ map_n \in 1..1000
    /\ ~RatEq(map_via_px, map_direct)

\* a block without colors
NoColors(b) == Get(b, "colors", << >>) = << >>

\* the one run of a block without colors: the whole text, black, with the
\* font family, size and bold flag the block declares
DefaultRuns(runs, b) ==
    /\ Len(runs) = 1
    /\ runs[1].text = b["text"]
    /\ runs[1].rgb = <<0, 0, 0>>
    /\ "font_family" \in DOMAIN b => runs[1].font = b["font_family"]
    /\ "font_size_pt" \in DOMAIN b => runs[1].size = b["font_size_pt"]
    /\ "is_bold" \in DOMAIN b => runs[1].bold = b["is_bold"]

\* C10: a block with non-empty text and no colors is composed to one run, and
\* a single page of one such block gives a deck of one slide with one text box
\* with that run
C10_DefaultRun ==
    /\ (BlockComposed /\ NoColors(LastBlock)) => DefaultRuns(LastBox.runs, LastBlock)
    /\ (/\ gen_pc = "done"
        /\ total_pages = 1
        /\ Len(PageBlocksOf(1)) = 1
        /\ Placed(PageBlocksOf(1)[1])
        /\ NoColors(PageBlocksOf(1)[1]))
       => /\ Len(prs) = 1
          /\ Len(prs[1].textboxes) = 1
          /\ DefaultRuns(prs[1].textboxes[1].runs, PageBlocksOf(1)[1])

\* C10, reached: the saved deck of a page with one block that has a font and an
\* empty colors list
C10_Witness ==
    /\ gen_pc = "done"
    /\ Len(PageBlocksOf(1)) = 1
    /\ Placed(PageBlocksOf(1)[1])
    /\ "colors" \in DOMAIN PageBlocksOf(1)[1]
    /\ PageBlocksOf(1)[1]["colors"] = << >>
    /\ Len(prs) = 1
    /\ Len(prs[1].textboxes) = 1
    /\ Len(prs[1].textboxes[1].runs) = 1
    /\ prs[1].textboxes[1].runs[1].font = "Merriweather"

----------------------------------------------------------------------------
\* Claims about the text-block loop

\* a block the loop passes over: its text is empty or missing, or it has no
\* bbox_1000 (lines 536-538, 541, 547-548)
Skipped(b) == Get(b, "text", << >>) = << >> \/ "bbox_1000" \notin DOMAIN b

----------------------------------------------------------------------------
\* Inputs of the Background Estimator: one page with one regular block, whose
\* image has any width and height up to MaxSide and any pixels at the sampled
\* places

MaxSide == 12

\* pixels of three and of four bands
BgPixels ==
    {<<255, 255, 255>>, <<255, 0, 0>>, <<0, 0, 255>>,
     <<255, 255, 255, 0>>, <<0, 255, 0, 128>>}

\* the places of an image of w x h pixels that lines 424-427 can read
SampledPlaces(w, h) ==
    {xy \in {Corners(w, h)[k] : k \in 1..4} :
        xy[1] \in 0..(w - 1) /\ xy[2] \in 0..(h - 1) /\ w > 10 /\ h > 10}

InitBg ==
    \E w \in 1..MaxSide, h \in 1..MaxSide :
        \E px \in [SampledPlaces(w, h) -> BgPixels] :
            GenEntry(1, 1000, 500,
                     1 :> [replace_all |-> TRUE,
                           blocks |-> <<[text |-> <<"A", "B">>,
                                         bbox_1000 |-> <<0, 0, 500, 100>>]>>],
                     1 :> [pil |-> TRUE, cv |-> TRUE, w |-> w, h |-> h, px |-> px,
                           contours |-> << >>])

SpecBg == InitBg /\ [][GenNext]_vars

\* C12: the background of every page image that opened is estimated without
\* an exception and is an RGB triple
C12_BackgroundNeverFails ==
    (page_num >= 1 /\ pages_dir[page_num].pil)
    => (gen_pc # "raised" /\ Len(prs[page_num].bg) = 3)

\* the colors at the four corners of the current page's image, in sampling
\* order, without alpha
CornerColors ==
    LET img == pages_dir[page_num]
    IN  [k \in 1..4 |-> SubSeq(img.px[Corners(img.w, img.h)[k]], 1, 3)]

\* how often color c is among the samples, and where it is first
Occurrences(samples, c) == Cardinality({k \in 1..Len(samples) : samples[k] = c})

FirstAt(samples, c) ==
    CHOOSE k \in 1..Len(samples) :
        samples[k] = c /\ \A i \in 1..(k - 1) : samples[i] # c

\* C17: the background set on a slide is one of the four corner colors, none
\* of the four occurs more often, and none that occurs as often is sampled
\* before it
C17_MostFrequentFirst ==
    (page_num >= 1 /\ gen_pc # "raised")
    => LET samples == CornerColors
           bg      == prs[page_num].bg
       IN  /\ \E k \in 1..4 : samples[k] = bg
           /\ \A j \in 1..4 :
                 /\ Occurrences(samples, samples[j]) <= Occurrences(samples, bg)
                 /\ Occurrences(samples, samples[j]) = Occurrences(samples, bg)
                    => FirstAt(samples, bg) <= FirstAt(samples, samples[j])

\* C17, reached: white (once with alpha) and red are sampled twice each, white
\* first; the background is white
C17_Witness ==
    /\ gen_pc = "done"
    /\ LET img == pages_dir[1]
           at  == Corners(img.w, img.h)
       IN  /\ img.px[at[1]] = <<255, 255, 255, 0>>
           /\ img.px[at[2]] = <<255, 0, 0>>
           /\ img.px[at[3]] = <<255, 0, 0>>
           /\ img.px[at[4]] = <<255, 255, 255>>
    /\ prs[1].bg = <<255, 255, 255>>

----------------------------------------------------------------------------
\* Inputs of the text box placement: one page of 1000 x 500 points with one
\* block whose bbox_1000 has values below, inside and above [0, 1000], and
\* sizes on both sides of the floor of 10 points

BoxOrigins == {-50, 0, 500, 1000, 1500}

BoxSizes == {-50, 0, 9, 10, 19, 20, 500, 1500}

InitBox ==
    \E nx \in BoxOrigins, ny \in BoxOrigins, nw \in BoxSizes, nh \in BoxSizes :
        GenEntry(1, 1000, 500,
                 1 :> [replace_all |-> TRUE,
                       blocks |-> <<[text |-> <<"A", "B">>,
                                     bbox_1000 |-> <<nx, ny, nw, nh>>]>>],
                 1 :> PlainImage)

SpecBox == InitBox /\ [][GenNext]_vars

\* a page-unit value that is the image of a normalized value in [0, 1000]
InPage(pt, page_dim) == RatLe(<<0, 1>>, pt) /\ RatLe(pt, <<page_dim, 1>>)

\* C13: the left, top, width and height of every text box on a slide are the
\* images of normalized values in [0, 1000]
C13_BBoxClamped ==
    \A i \in 1..Len(prs) :
        \A t \in 1..Len(prs[i].textboxes) :
            LET box == prs[i].textboxes[t]
            IN  /\ InPage(box.left, page_width)
                /\ InPage(box.top, page_height)
                /\ InPage(box.width, page_width)
                /\ InPage(box.height, page_height)

\* the width and height a placed block's bbox_1000 maps to
MappedWidth(b) == NormToPt(b["bbox_1000"][3], page_width)

MappedHeight(b) == NormToPt(b["bbox_1000"][4], page_height)

TooSmall(pt) == RatLt(pt, <<10, 1>>)

\* C16 as stated: a placed block whose mapped width or height is below 10 gets
\* the box of 50 x 30, and every text box is at least 10 wide and 10 high
C16_MinimumBox ==
    BlockComposed
    => /\ (TooSmall(MappedWidth(LastBlock)) \/ TooSmall(MappedHeight(LastBlock)))
          => (LastBox.width = <<50, 1>> /\ LastBox.height = <<30, 1>>)
       /\ ~TooSmall(LastBox.width)
       /\ ~TooSmall(LastBox.height)

\* C16 (amended): a mapped width below 10 becomes 50 and a mapped height below
\* 10 becomes 30, each on its own, a width or height of 10 or more is kept as
\* mapped; every text box is at least 10 wide and 10 high
C16_FloorPerDimension ==
    BlockComposed
    => /\ LastBox.width = IF TooSmall(MappedWidth(LastBlock)) THEN <<50, 1>>
                          ELSE MappedWidth(LastBlock)
       /\ LastBox.height = IF TooSmall(MappedHeight(LastBlock)) THEN <<30, 1>>
                           ELSE MappedHeight(LastBlock)
       /\ ~TooSmall(LastBox.width)
       /\ ~TooSmall(LastBox.height)

\* C16, reached: a block of width 9 and height 500 is placed 50 wide and as
\* high as mapped
C16_Witness ==
    /\ BlockComposed
    /\ LastBlock["bbox_1000"][3] = 9
    /\ LastBlock["bbox_1000"][4] = 500
    /\ LastBox.width = <<50, 1>>
    /\ RatEq(LastBox.height, <<250, 1>>)

----------------------------------------------------------------------------
\* Claims about color ranges and the pixel transform

\* the runs the declared ranges give when start and end are limited to
\* [0, len(text)]: one for every range whose slice is not empty, in order
RECURSIVE ClampedRuns(_, _)
ClampedRuns(cs, text) ==
    IF cs = << >> THEN << >>
    ELSE LET r == RangeOf(Head(cs), text)
             a == Clamp(r[1], Len(text))
             b == Clamp(r[2], Len(text))
         IN  (IF a < b
              THEN <<[text |-> SubSeq(text, a + 1, b), rgb |-> Get(Head(cs), "rgb", BLACK)]>>
              ELSE << >>)
             \o ClampedRuns(Tail(cs), text)

\* C14: the runs of a composed block's declared ranges are, in order, the
\* slices text[clamp(start):clamp(end)] that are not empty, each in its
\* declared color; at most the remainder run follows them
C14_RangeClamping ==
    (BlockComposed /\ Get(LastBlock, "colors", << >>) # << >>)
    => LET want == ClampedRuns(LastBlock["colors"], LastBlock["text"])
           runs == LastBox.runs
       IN  /\ Len(runs) \in {Len(want), Len(want) + 1}
           /\ \A k \in 1..Len(want) :
                 runs[k].text = want[k].text /\ runs[k].rgb = want[k].rgb

\* C15: the pixel value of a normalized value is the integer nearest to
\* n / 1000 * image size (a value halfway may go either way)
C15_RoundToNearest ==
    map_pc # "start"
    => LET d == 1000 * map_px - map_n * map_img
       IN  2 * d <= 1000 /\ 2 * d >= -1000

----------------------------------------------------------------------------
\* Claims about the background task and the job's status

\* the places where a task is over: it returned, or an exception left it
TaskOver(pc) == pc \in {"done", "escaped"}

\* C18: the step that ends a background task leaves no exception escaping and
\* leaves the job's status 'completed' or 'error'
C18_TaskEndsSettled ==
    [][\A t \in 1..Len(tasks) :
          (~TaskOver(tasks[t].pc) /\ TaskOver(tasks'[t].pc))
          => /\ tasks'[t].pc = "done"
             /\ job_dict'[tasks[t].job_id].status \in {"completed", "error"}]_vars

\* C19: a job whose status is 'completed' has progress 100 and its output
\* path and file name set
C19_CompletedHasOutput ==
    \A j \in DOMAIN job_dict :
        job_dict[j].status = "completed"
        => (job_dict[j].progress = 100 /\ job_dict[j].has_output)

\* the place of a status on the way pending -> ... -> completed
StatusRank(st) ==
    CASE st = "pending"    -> 0
      [] st = "processing" -> 1
      [] st = "analyzing"  -> 2
      [] st = "generating" -> 3
      [] st = "completed"  -> 4
      [] st = "error"      -> 4

\* a status change the claim allows: forward on the way, or to 'error' from a
\* status that is not terminal
StatusForward(a, b) ==
    \/ a = b
    \/ a \notin {"completed", "error"} /\ b = "error"
    \/ a \notin {"completed", "error"} /\ b # "error" /\ StatusRank(a) < StatusRank(b)

\* C20: every step leaves a job's status as it is or moves it forward; a
\* status of 'completed' or 'error' never changes
C20_StatusForwardOnly ==
    [][\A j \in DOMAIN job_dict :
          StatusForward(job_dict[j].status, job_dict'[j].status)]_vars

----------------------------------------------------------------------------
\* Claims about the analysis loop and the HTTP answers

\* task t has analyzed one more page in this step
PageAnalyzed(t) == tasks'[t].page_num = tasks[t].page_num + 1

\* C21: the step in which a task analyzes page k stores an entry for page k and
\* leaves the entries of the pages before it, so the result has exactly the
\* entries 1..k; if the analysis raised or its reply was no JSON the entry is a
\* placeholder with one text block; the step does not take the job to 'error'
\* and leaves the task in the analysis loop
C21_PageFailureIsolated ==
    [][\A t \in 1..Len(tasks) :
          PageAnalyzed(t)
          => LET k   == tasks'[t].page_num
                 j   == tasks[t].job_id
                 old == tasks[t].analysis_results
                 new == tasks'[t].analysis_results
             IN  /\ DOMAIN new = 1..k
                 /\ \A i \in DOMAIN old : new[i] = old[i]
                 /\ tasks'[t].outcome \in {"parse_error", "analysis_error"}
                    => (Len(new[k].blocks) = 1 /\ new[k].blocks[1].text[1] = "[Page ")
                 /\ job_dict'[j].status = "error" => job_dict[j].status = "error"
                 /\ tasks'[t].pc = "sleep_analyze"]_vars

\* C21, reached: a task of a two-page job whose first page's analysis raised
\* has analyzed the second page too and gone on to the converter, the job not
\* in 'error'
C21_Witness ==
    \E t \in 1..Len(tasks) :
        /\ tasks[t].total_pages = 2
        /\ tasks[t].pc = "sleep_poll"
        /\ DOMAIN tasks[t].analysis_results = {1, 2}
        /\ tasks[t].analysis_results[1] = ErrorPlaceholder(1)
        /\ tasks[t].analysis_results[2] = GeminiLayout(2)
        /\ job_dict[tasks[t].job_id].status = "generating"

\* everything of the server but the answer to the last request
ServerState == <<api_key, jobs, job_dict, created, pdfs, job_dirs, outputs, tasks>>

\* C22: a download request for a job in the store is answered with the file
\* only if the job's status is 'completed', and with 400 and no file if its
\* status is anything else; a status request or a process request for a job id
\* that is not in the store is answered 404 and changes nothing
C22_DownloadGate ==
    [][\A j \in JobIds :
          /\ (download_result(j) /\ j \in jobs)
             => /\ resp'.file => job_dict[j].status = "completed"
                /\ job_dict[j].status # "completed"
                   => (resp'.code = 400 /\ ~resp'.file)
          /\ ((get_status(j) \/ start_processing(j)) /\ j \notin jobs)
             => (resp'.code = 404 /\ ~resp'.file /\ UNCHANGED ServerState)]_vars

\* C22, reached: a download was refused with 400 for a stored job that is not
\* completed although its output file exists
C22_Witness ==
    /\ resp.op = "download"
    /\ resp.code = 400
    /\ resp.job_id \in jobs
    /\ resp.job_id \in outputs
    /\ job_dict[resp.job_id].has_output
    /\ job_dict[resp.job_id].status \in {"processing", "analyzing", "generating", "error"}

\* C22, reached: a process request for a job that was cleaned up was answered
\* 404 while the job's task is still running
C22_Witness404 ==
    /\ resp.op = "process"
    /\ resp.code = 404
    /\ resp.job_id \in 1..created
    /\ resp.job_id \notin jobs
    /\ \E t \in 1..Len(tasks) : tasks[t].job_id = resp.job_id /\ ~TaskOver(tasks[t].pc)

====
